---- MODULE Spec2Model ----
(***************************************************************************)
(* Model of process_sourcemember_app.py: the SalesforceQueryTool class     *)
(* (generate_soql, run_tooling_query, save_to_csv, generate_package_xml)   *)
(* and the two button handlers of main().                                  *)
(*                                                                         *)
(* Text that str.format scans is a sequence of atoms: an atom is either a  *)
(* brace "{" or "}", or a chunk of brace-free characters.  All other text  *)
(* (CSV cells, member names, file names) is a TLA+ string.                 *)
(***************************************************************************)
EXTENDS Integers, Sequences, FiniteSets, TLC

VARIABLES session_member_types, files, last, fn

vars == <<session_member_types, files, last, fn>>

\* --------------------------------------------------------------- bounds
\* Atoms per input string of generate_soql.
MaxAtoms == 2
\* Member types per call of generate_soql.
MaxTypes == 2
\* Records per direct call of save_to_csv.
MaxRecords == 2
\* Records per response to the query of "Fetch Member Types".
MaxFetchRecords == 2
\* Records per response to the final query, where both buttons are pressed.
MaxFinalRecords == 1
\* Records per response to the final query, where only that button is pressed.
MaxManifestRecords == 2

\* All sequences of 0..n elements of a set.
SeqsUpTo(S, n) == UNION {[1..k -> S] : k \in 0..n}

\* ------------------------------------------------------- python values
\* Python's None and a str, tagged so that the two compare.
PyNone == [t |-> "None", s |-> <<>>]

PyStr(a) == [t |-> "str", s |-> a]

\* str(v) as str.format renders a replacement field.
PyToStr(v) == IF v.t = "None" THEN <<"None">> ELSE v.s

\* bool(v) for None, a str or a list.
Truthy(v) == v.t # "None" /\ v.s # <<>>

\* A raised exception / a returned value, as one shape of record.
Raise(kind, msg) == [ok |-> FALSE, exc |-> kind, val |-> msg]

Return(v) == [ok |-> TRUE, exc |-> "", val |-> v]

\* ------------------------------------------------------------ str.format
\* Index of the first "}" of s at or after i, 0 when there is none or a "{"
\* comes first (a "{" inside a replacement field is a ValueError).
RECURSIVE FieldEnd(_, _)
FieldEnd(s, i) ==
    IF i > Len(s) THEN 0
    ELSE IF s[i] = "}" THEN i
    ELSE IF s[i] = "{" THEN 0
    ELSE FieldEnd(s, i + 1)

\* query.format(user_did_change=value): "{{" and "}}" are escapes, a field
\* named user_did_change is replaced by str(value) (not scanned again), an
\* empty field is positional (IndexError), any other name a KeyError, and an
\* unmatched brace a ValueError.
RECURSIVE FormatFrom(_, _, _, _)
FormatFrom(s, i, value, acc) ==
    IF i > Len(s) THEN Return(acc)
    ELSE IF s[i] = "{" THEN
        IF i + 1 <= Len(s) /\ s[i + 1] = "{"
        THEN FormatFrom(s, i + 2, value, Append(acc, "{"))
        ELSE LET j == FieldEnd(s, i + 1) IN
             IF j = 0 THEN Raise("ValueError", <<>>)
             ELSE LET name == SubSeq(s, i + 1, j - 1) IN
                  IF name = <<"user_did_change">>
                  THEN FormatFrom(s, j + 1, value, acc \o PyToStr(value))
                  ELSE IF name = <<>> THEN Raise("IndexError", <<>>)
                  ELSE Raise("KeyError", name)
    ELSE IF s[i] = "}" THEN
        IF i + 1 <= Len(s) /\ s[i + 1] = "}"
        THEN FormatFrom(s, i + 2, value, Append(acc, "}"))
        ELSE Raise("ValueError", <<>>)
    ELSE FormatFrom(s, i + 1, value, Append(acc, s[i]))

Format(s, value) == FormatFrom(s, 1, value, <<>>)

\* sep.join(items) for a sequence of atom strings.
RECURSIVE Join(_, _)
Join(sep, items) ==
    IF items = <<>> THEN <<>>
    ELSE IF Len(items) = 1 THEN items[1]
    ELSE items[1] \o sep \o Join(sep, Tail(items))

\* --------------------------------------------------------- generate_soql
SelectClause ==
    "SELECT Id, LastModifiedBy.Name, MemberIdOrName, MemberType, MemberName, RevisionNum, RevisionCounter, IsNameObsolete, LastModifiedById, IsNewMember, ChangedBy FROM SourceMember WHERE LastModifiedBy.Name = "

InClause == " AND MemberType IN ("

\* The query before formatting (lines 34-43).
SoqlTemplate(member_types) ==
    <<SelectClause, "'", "{", "user_did_change", "}", "'">>
      \o (IF Truthy(member_types)
          THEN <<InClause, "'">> \o Join(<<"'", ", ", "'">>, member_types.s) \o <<"'", ")">>
          ELSE <<>>)

\* SalesforceQueryTool.generate_soql: the IN clause is appended first and the
\* whole string is formatted afterwards (line 45).
generate_soql(user_did_change, member_types) ==
    Format(SoqlTemplate(member_types), user_did_change)

\* ----------------------------------------------------------- JSON values
\* A JSON null and a JSON string of a record, tagged so that the two compare.
JNull == [t |-> "null", s |-> ""]

JStr(x) == [t |-> "str", s |-> x]

\* A record of the response is an insertion-ordered dict: a sequence of
\* key/value pairs with distinct keys.
Field(key, value) == [k |-> key, v |-> value]

\* list(record.keys()), in insertion order.
Keys(record) == [i \in 1..Len(record) |-> record[i].k]

\* key in record.
HasKey(record, key) == \E i \in 1..Len(record) : record[i].k = key

\* record[key], for a key the record has.
Get(record, key) == record[CHOOSE i \in 1..Len(record) : record[i].k = key].v

\* The elements of a sequence.
Range(seq) == {seq[i] : i \in 1..Len(seq)}

\* ----------------------------------------------------------------- files
\* The file names of the two text inputs (lines 213-214).
DefaultCsv == "output.csv"

DefaultPkgXml == "package.xml"

Paths == {DefaultCsv, DefaultPkgXml}

\* What a path holds: nothing, a CSV file (header and rows of cells) or a
\* package.xml (version and <types> blocks).
NoFile == [kind |-> "none", header |-> <<>>, rows |-> <<>>, version |-> "", types |-> <<>>]

CsvFile(header, rows) ==
    [kind |-> "csv", header |-> header, rows |-> rows, version |-> "", types |-> <<>>]

XmlFile(version, types) ==
    [kind |-> "xml", header |-> <<>>, rows |-> <<>>, version |-> version, types |-> types]

\* st.warning / st.success / st.error with its text.
Message(kind, text) == [kind |-> kind, text |-> text]

\* What a method leaves behind: the files, the messages shown, and the
\* exception it raised (ok when it returned).
Outcome(fs, msgs, result) == [fs |-> fs, msgs |-> msgs, result |-> result]

\* ----------------------------------------------------------- save_to_csv
\* The cell csv.writer writes for a value: None is written as the empty string.
CsvCell(value) == IF value.t = "null" THEN "" ELSE value.s

\* DictWriter._dict_to_list: a key outside fieldnames raises (extrasaction is
\* 'raise'), a missing key is written as restval ''.
HasExtraKey(fieldnames, record) == \E i \in 1..Len(record) : record[i].k \notin Range(fieldnames)

CsvRow(fieldnames, record) ==
    [i \in 1..Len(fieldnames) |->
        IF HasKey(record, fieldnames[i]) THEN CsvCell(Get(record, fieldnames[i])) ELSE ""]

\* The rows written before the first record that raises (all of them when
\* none does).
RECURSIVE RowsWritten(_, _)
RowsWritten(fieldnames, records) ==
    IF records = <<>> \/ HasExtraKey(fieldnames, records[1]) THEN <<>>
    ELSE <<CsvRow(fieldnames, records[1])>> \o RowsWritten(fieldnames, Tail(records))

\* save_to_csv without the test for an empty result (lines 79-81): the file is
\* opened, and so truncated, before records[0] raises.
save_to_csv_NoEmptyCheck(fs, results, output_csv) ==
    IF results.records = <<>>
    THEN Outcome([fs EXCEPT ![output_csv] = CsvFile(<<>>, <<>>)], <<>>,
                 Raise("IndexError", <<"list index out of range">>))
    ELSE LET fieldnames == Keys(results.records[1])
             rows == RowsWritten(fieldnames, results.records)
             written == [fs EXCEPT ![output_csv] = CsvFile(fieldnames, rows)]
         IN  IF Len(rows) < Len(results.records)
             THEN Outcome(written, <<>>,
                          Raise("ValueError", <<"dict contains fields not in fieldnames">>))
             ELSE Outcome(written,
                          <<Message("success", <<"CSV file saved to ", output_csv>>)>>,
                          Return(<<>>))

\* save_to_csv with DictWriter(..., extrasaction='ignore').
save_to_csv_IgnoreExtras(fs, results, output_csv) ==
    IF results.records = <<>>
    THEN Outcome(fs, <<Message("warning", <<"No records found.">>)>>, Return(<<>>))
    ELSE LET fieldnames == Keys(results.records[1])
             rows == [i \in 1..Len(results.records) |-> CsvRow(fieldnames, results.records[i])]
         IN  Outcome([fs EXCEPT ![output_csv] = CsvFile(fieldnames, rows)],
                     <<Message("success", <<"CSV file saved to ", output_csv>>)>>,
                     Return(<<>>))

\* SalesforceQueryTool.save_to_csv (lines 72-91).  open(..., 'w') truncates the
\* file before anything is written, and the with block closes it when writerow
\* raises, so the rows written until then stay in the file.
save_to_csv(fs, results, output_csv) ==
    IF results.records = <<>>
    THEN Outcome(fs, <<Message("warning", <<"No records found.">>)>>, Return(<<>>))
    ELSE LET fieldnames == Keys(results.records[1])
             rows == RowsWritten(fieldnames, results.records)
             written == [fs EXCEPT ![output_csv] = CsvFile(fieldnames, rows)]
         IN  IF Len(rows) < Len(results.records)
             THEN Outcome(written, <<>>,
                          Raise("ValueError", <<"dict contains fields not in fieldnames">>))
             ELSE Outcome(written,
                          <<Message("success", <<"CSV file saved to ", output_csv>>)>>,
                          Return(<<>>))

\* -------------------------------------------------- generate_package_xml
\* sep.join(items) for TLA+ strings.
RECURSIVE JoinStr(_, _)
JoinStr(sep, items) ==
    IF items = <<>> THEN ""
    ELSE IF Len(items) = 1 THEN items[1]
    ELSE items[1] \o sep \o JoinStr(sep, Tail(items))

\* The orders in which iterating a Python set may yield its elements: a set of
\* str iterates in hash order, which differs from run to run.
IterationOrders(S) ==
    {p \in [1..Cardinality(S) -> S] : \A i, j \in 1..Cardinality(S) : i # j => p[i] # p[j]}

\* row[key] of a csv.DictReader row.
Cell(header, row, key) == row[CHOOSE i \in 1..Len(header) : header[i] = key]

\* The rows csv.DictReader yields, as MemberType / MemberName pairs
\* (lines 105-108).
ReadRows(file) ==
    [i \in 1..Len(file.rows) |->
        [MemberType |-> Cell(file.header, file.rows[i], "MemberType"),
         MemberName |-> Cell(file.header, file.rows[i], "MemberName")]]

\* The key of members_mapping (line 111): the two names joined by a dot.
MappingKey(member_type, member_name) == member_type \o "." \o member_name

\* members_mapping[key] after the loop (line 111).
MembersMapping(rows, key) ==
    {rows[i].MemberName : i \in {j \in 1..Len(rows) :
                                    MappingKey(rows[j].MemberType, rows[j].MemberName) = key}}

\* name_mapping[member_type] after the loop (line 112).
NameMapping(rows, member_type) ==
    {rows[i].MemberName : i \in {j \in 1..Len(rows) : rows[j].MemberType = member_type}}

\* The keys of name_mapping in dict order: each MemberType where it first occurs.
RECURSIVE NameMappingKeys(_, _)
NameMappingKeys(rows, seen) ==
    IF rows = <<>> THEN <<>>
    ELSE IF rows[1].MemberType \in seen THEN NameMappingKeys(Tail(rows), seen)
    ELSE <<rows[1].MemberType>>
           \o NameMappingKeys(Tail(rows), seen \cup {rows[1].MemberType})

\* The texts line 123 may give the <members> element of one name: the values of
\* members_mapping under the composite key, joined in iteration order.
MemberValues(rows, member_type, member_name) ==
    {JoinStr(", ", q) :
        q \in IterationOrders(MembersMapping(rows, MappingKey(member_type, member_name)))}

\* The <types> blocks lines 120-128 may emit for one type.
TypesBlocks(rows, member_type) ==
    LET names == NameMapping(rows, member_type)
        texts == UNION {MemberValues(rows, member_type, n) : n \in names}
    IN  {[name |-> member_type, members |-> [i \in 1..Len(p) |-> text[p[i]]]] :
            p \in IterationOrders(names),
            text \in {f \in [names -> texts] :
                        \A n \in names : f[n] \in MemberValues(rows, member_type, n)}}

\* The sequences of blocks the loop of line 119 may emit for the given types.
RECURSIVE PackageTypes(_, _)
PackageTypes(rows, member_types) ==
    IF member_types = <<>> THEN {<<>>}
    ELSE {<<b>> \o rest : b \in TypesBlocks(rows, member_types[1]),
                          rest \in PackageTypes(rows, Tail(member_types))}

\* SalesforceQueryTool.generate_package_xml (lines 93-136): every outcome it
\* may have.  Reading fails when the CSV is missing (open raises), and at the
\* first row when the header lacks MemberName or MemberType (a package.xml
\* read as CSV has its first line as the only column); the manifest is
\* written only once its whole text is built.
generate_package_xml(fs, api_version, output_csv, pkg_xml) ==
    LET file == fs[output_csv] IN
    IF file.kind = "none"
    THEN {Outcome(fs, <<>>, Raise("FileNotFoundError", <<output_csv>>))}
    ELSE IF file.kind = "xml"
    THEN {Outcome(fs, <<>>, Raise("KeyError", <<"MemberName">>))}
    ELSE IF file.rows # <<>> /\ "MemberName" \notin Range(file.header)
    THEN {Outcome(fs, <<>>, Raise("KeyError", <<"MemberName">>))}
    ELSE IF file.rows # <<>> /\ "MemberType" \notin Range(file.header)
    THEN {Outcome(fs, <<>>, Raise("KeyError", <<"MemberType">>))}
    ELSE LET rows == ReadRows(file) IN
         {Outcome([fs EXCEPT ![pkg_xml] = XmlFile(api_version, types)],
                  <<Message("success", <<"package.xml saved to ", pkg_xml>>)>>,
                  Return(<<>>)) :
            types \in PackageTypes(rows, NameMappingKeys(rows, {}))}

\* ----------------------------------------------------- run_tooling_query
\* The only status run_tooling_query accepts (line 67).
HTTP_OK == 200

\* What requests.get returned: the status, the body text and, for a 200, the
\* records of the JSON body.
Response(status_code, text, records) ==
    [status_code |-> status_code, text |-> text, records |-> records]

\* response.json() of a 200 response.
Results(records) == [records |-> records]

\* SalesforceQueryTool.run_tooling_query (lines 47-70), given the response its
\* one requests.get receives.
run_tooling_query_NoStatusCheck(response) == Return(Results(response.records))

run_tooling_query(response) ==
    IF response.status_code # HTTP_OK
    THEN Raise("Exception",
               <<"Failed to run query: ", ToString(response.status_code), " ", response.text>>)
    ELSE Return(Results(response.records))

\* The calls of requests.get one call of run_tooling_query makes (line 64).
RequestsPerQuery == 1

\* ------------------------------------------------------------ main state
\* st.session_state['member_types'] before any fetch has stored it, and once
\* one has.
Absent == [t |-> "absent", v |-> <<>>]

Stored(member_types) == [t |-> "list", v |-> member_types]

\* No response: no request was sent.
NoResponse == Response(0, "", <<>>)

\* What the last button press did: the changed-by user it ran with, the
\* requests it sent, the response it got, the methods it called and the
\* messages it showed.
Pressed(action, user_did_change, requests, response, steps, messages) ==
    [action |-> action, user_did_change |-> user_did_change,
     requests |-> requests, response |-> response,
     steps |-> steps, messages |-> messages]

\* No button pressed yet.
NoAction == Pressed("none", "", 0, NoResponse, <<>>, <<>>)

\* The harness of a direct call of one method: no call in progress.
NoCall == [name |-> "", pc |-> "idle", args |-> <<>>, out |-> <<>>]

InitMain ==
    /\ session_member_types = Absent
    /\ files = [p \in Paths |-> NoFile]
    /\ last = NoAction

\* ------------------------------------------------------------------ main
\* The text of a text input as the atoms str.format sees.
Atoms(text) == IF text = "" THEN <<>> ELSE <<text>>

\* Lines 176-183: the tool exists only when both text inputs are non-empty.
ToolInitialised_UserNotChecked(user_did_change, api_version) == api_version # ""

ToolInitialised(user_did_change, api_version) == user_did_change # "" /\ api_version # ""

\* The strings of the model in Python's order of str.
CodePointOrder == <<"", "A", "A.B", "B.C", "C">>

\* sorted(S) for a set of strs.
Sorted(S) == SelectSeq(CodePointOrder, LAMBDA x : x \in S)

\* st.error of the else branches (lines 199 and 252).
NotInitialised == Message("error", <<"Tool is not initialized. Please check your inputs.">>)

\* st.error of the except clauses (lines 202 and 255).
ErrorOccurred(e) == Message("error", <<"An error occurred: ">> \o e.val)

\* What a button press leaves: the session state, the files and its record.
After(session, fs, pressed) == [session |-> session, fs |-> fs, last |-> pressed]

\* Line 193: sorted({record['MemberType'] for record in results['records']}).
MemberTypesOf_Unsorted(records) ==
    IF \E i \in 1..Len(records) : ~HasKey(records[i], "MemberType")
    THEN Raise("KeyError", <<"MemberType">>)
    ELSE Return([i \in 1..Len(records) |-> Get(records[i], "MemberType").s])

MemberTypesOf(records) ==
    IF \E i \in 1..Len(records) : ~HasKey(records[i], "MemberType")
    THEN Raise("KeyError", <<"MemberType">>)
    ELSE Return(Sorted({Get(records[i], "MemberType").s : i \in 1..Len(records)}))

\* The handler of "Fetch Member Types" (lines 185-202).
FetchHandler(session, fs, user_did_change, api_version, response) ==
    IF ~ToolInitialised(user_did_change, api_version)
    THEN After(session, fs,
               Pressed("fetch", user_did_change, 0, NoResponse, <<>>, <<NotInitialised>>))
    ELSE LET soql_query == generate_soql(PyStr(Atoms(user_did_change)), PyNone)
             results == run_tooling_query(response)
             done(steps, requests, resp, session1, msgs) ==
                 After(session1, fs,
                       Pressed("fetch", user_did_change, requests, resp, steps, msgs))
         IN  IF ~soql_query.ok
             THEN done(<<"generate_soql">>, 0, NoResponse, session,
                       <<ErrorOccurred(soql_query)>>)
             ELSE IF ~results.ok
             THEN done(<<"generate_soql", "run_tooling_query">>, RequestsPerQuery, response,
                       session, <<ErrorOccurred(results)>>)
             ELSE LET member_types == MemberTypesOf(results.val.records) IN
                  IF ~member_types.ok
                  THEN done(<<"generate_soql", "run_tooling_query">>, RequestsPerQuery,
                            response, session, <<ErrorOccurred(member_types)>>)
                  ELSE done(<<"generate_soql", "run_tooling_query">>, RequestsPerQuery,
                            response, Stored(member_types.val), <<>>)

\* The handler of "Run Final Query and Generate Files" (lines 222-255): every
\* outcome it may have.  The two checkboxes only render (lines 229-230 and
\* 240-242) and the downloads only read the two files just written
\* (lines 245-249).
FinalHandler(session, fs, user_did_change, api_version, selected_member_types, output_csv, pkg_xml, response) ==
    IF ~ToolInitialised(user_did_change, api_version)
    THEN {After(session, fs,
                Pressed("final", user_did_change, 0, NoResponse, <<>>, <<NotInitialised>>))}
    ELSE LET final_query ==
                 generate_soql(PyStr(Atoms(user_did_change)),
                               [t |-> "list",
                                s |-> [i \in 1..Len(selected_member_types) |->
                                          Atoms(selected_member_types[i])]])
             final_results == run_tooling_query(response)
             done(steps, requests, resp, fs1, msgs) ==
                 After(session, fs1,
                       Pressed("final", user_did_change, requests, resp, steps, msgs))
         IN  IF ~final_query.ok
             THEN {done(<<"generate_soql">>, 0, NoResponse, fs, <<ErrorOccurred(final_query)>>)}
             ELSE IF ~final_results.ok
             THEN {done(<<"generate_soql", "run_tooling_query">>, RequestsPerQuery, response,
                        fs, <<ErrorOccurred(final_results)>>)}
             ELSE LET saved == save_to_csv(fs, final_results.val, output_csv) IN
                  IF ~saved.result.ok
                  THEN {done(<<"generate_soql", "run_tooling_query", "save_to_csv">>,
                             RequestsPerQuery, response, saved.fs,
                             saved.msgs \o <<ErrorOccurred(saved.result)>>)}
                  ELSE {done(<<"generate_soql", "run_tooling_query", "save_to_csv",
                               "generate_package_xml">>,
                             RequestsPerQuery, response, pkg.fs,
                             saved.msgs \o pkg.msgs
                               \o (IF pkg.result.ok THEN <<>> ELSE <<ErrorOccurred(pkg.result)>>)) :
                          pkg \in generate_package_xml(saved.fs, api_version, output_csv, pkg_xml)}

\* ------------------------------------------------------- the user's inputs
\* The two text inputs of lines 170 and 173, possibly left empty.
UserInputs == {"", "bob"}

ApiVersionInputs == {"", "60.0"}

\* The two file names are left at the defaults of lines 213-214.
CsvNameInputs == {DefaultCsv}

PkgXmlNameInputs == {DefaultPkgXml}

\* A record of the response with the two fields the tool reads.
MainRecord(member_type, member_name) ==
    <<Field("MemberType", JStr(member_type)), Field("MemberName", JStr(member_name))>>

\* The records the final query may answer with: two whose MemberType and
\* MemberName join to the same dotted text, and one with another field in
\* place of MemberName.
FinalRecords ==
    {MainRecord("A.B", "C"), MainRecord("A", "B.C"),
     <<Field("MemberType", JStr("A")), Field("Id", JStr("1"))>>}

\* The records the first query may answer with: the handler reads MemberType
\* alone, which one of them lacks.
FetchRecords ==
    {MainRecord("A.B", "C"), MainRecord("A", "B.C"), <<Field("MemberName", JStr("C"))>>}

\* The responses that are no 200.
ErrorResponses ==
    {Response(401, "invalid session", <<>>), Response(500, "server error", <<>>)}

\* The responses of the remote query: a 200 with up to n of the given
\* records, or an error.
Responses(records, n) ==
    {Response(HTTP_OK, "", r) : r \in SeqsUpTo(records, n)} \cup ErrorResponses

\* What st.multiselect may return: options of the stored list, each at most
\* once, in the order they were picked.
Selections(options) ==
    {sel \in SeqsUpTo(Range(options), Len(options)) :
        \A i, j \in 1..Len(sel) : i # j => sel[i] # sel[j]}

\* ---------------------------------------------------------------- actions
\* A press of "Fetch Member Types": without a tool no request is sent, with
\* one the remote answers with some response.
FetchMemberTypes ==
    \E user_did_change \in UserInputs, api_version \in ApiVersionInputs :
      \E response \in IF ToolInitialised(user_did_change, api_version)
                      THEN Responses(FetchRecords, MaxFetchRecords) ELSE {NoResponse} :
        LET o == FetchHandler(session_member_types, files,
                              user_did_change, api_version, response) IN
            /\ session_member_types' = o.session
            /\ files' = o.fs
            /\ last' = o.last
            /\ UNCHANGED fn

\* A press of "Run Final Query and Generate Files"; the button is rendered
\* only once the session state holds member_types (line 205).  Without a tool
\* neither the selection nor the remote is consulted.
RunFinal(max_records) ==
    /\ session_member_types # Absent
    /\ \E user_did_change \in UserInputs, api_version \in ApiVersionInputs,
          output_csv \in CsvNameInputs, pkg_xml \in PkgXmlNameInputs :
        \E selected_member_types \in IF ToolInitialised(user_did_change, api_version)
                                     THEN Selections(session_member_types.v) ELSE {<<>>},
           response \in IF ToolInitialised(user_did_change, api_version)
                        THEN Responses(FinalRecords, max_records) ELSE {NoResponse} :
         \E o \in FinalHandler(session_member_types, files, user_did_change, api_version,
                               selected_member_types, output_csv, pkg_xml, response) :
            /\ session_member_types' = o.session
            /\ files' = o.fs
            /\ last' = o.last
            /\ UNCHANGED fn

RunFinalQuery == RunFinal(MaxFinalRecords)

Init == InitMain /\ fn = NoCall

Next == FetchMemberTypes \/ RunFinalQuery

Spec == Init /\ [][Next]_vars

\* ------------------------------------- the final query pressed repeatedly
\* The states a first successful fetch leaves.
InitManifest ==
    /\ fn = NoCall
    /\ \E response \in Responses(FetchRecords, MaxFetchRecords) :
         LET o == FetchHandler(Absent, [p \in Paths |-> NoFile], "bob", "60.0", response) IN
            /\ o.session # Absent
            /\ session_member_types = o.session
            /\ files = o.fs
            /\ last = o.last

RunFinalQueryRows == RunFinal(MaxManifestRecords)

NextManifest == RunFinalQueryRows

SpecManifest == InitManifest /\ [][NextManifest]_vars

\* ------------------------------------- generate_soql called on its own
\* All strings of 0..n atoms over an alphabet.
AtomStrings(alphabet, n) == SeqsUpTo(alphabet, n)

\* Atoms a MemberType may be made of.
TypeAtoms == {"ApexClass", "{", "}", "user_did_change"}

\* Atoms a changed-by name may be made of.
UserAtoms == {"bob", "{", "}"}

\* self.user_did_change: the constructor's default None, or a str.
SoqlUsers == {PyNone} \cup {PyStr(a) : a \in AtomStrings(UserAtoms, MaxAtoms)}

\* member_types: the default None, or a list of non-empty strs.
SoqlTypeLists ==
    {PyNone} \cup
    {[t |-> "list", s |-> l] :
        l \in AtomStrings(AtomStrings(TypeAtoms, MaxAtoms) \ {<<>>}, MaxTypes)}

InitSoql ==
    /\ InitMain
    /\ fn \in {[name |-> "generate_soql", pc |-> "call",
                args |-> [user_did_change |-> u, member_types |-> m],
                out |-> <<>>] : u \in SoqlUsers, m \in SoqlTypeLists}

Call_generate_soql ==
    /\ fn.name = "generate_soql"
    /\ fn.pc = "call"
    /\ fn' = [fn EXCEPT !.pc = "return",
                        !.out = generate_soql(fn.args.user_did_change, fn.args.member_types)]
    /\ UNCHANGED <<session_member_types, files, last>>

NextSoql == Call_generate_soql

SpecSoql == InitSoql /\ [][NextSoql]_vars

\* ------------------------------------------------------------ claim C1
\* The member types a call was given (None counts as none).
GivenTypes(m) == IF m.t = "None" THEN <<>> ELSE m.s

\* 'T1', 'T2', ...: each type in single quotes, in input order.
RECURSIVE QuotedList(_)
QuotedList(types) ==
    IF types = <<>> THEN <<>>
    ELSE <<"'">> \o types[1] \o <<"'">>
         \o (IF Len(types) = 1 THEN <<>> ELSE <<", ">> \o QuotedList(Tail(types)))

\* The positions of the text " AND MemberType IN (" in a query.
InClauseAt(q) == {i \in 1..Len(q) : q[i] = InClause}

\* What C1 says of one call: a query is returned; it has one IN clause, listing
\* the quoted types in input order, when types were given, and none otherwise.
InClauseAsClaimed(user, m, out) ==
    /\ out.ok
    /\ IF GivenTypes(m) = <<>>
       THEN InClauseAt(out.val) = {}
       ELSE /\ Cardinality(InClauseAt(out.val)) = 1
            /\ \A i \in InClauseAt(out.val) :
                 SubSeq(out.val, i, Len(out.val))
                   = <<InClause>> \o QuotedList(GivenTypes(m)) \o <<")">>

\* C1: for every changed_by and every member_types, generate_soql returns a
\* query with exactly one " AND MemberType IN (...)" clause listing each type in
\* single quotes, comma-separated, in input order (duplicates kept) when
\* member_types is non-empty, and with no IN clause when it is empty or absent.
C1_InClause ==
    (fn.name = "generate_soql" /\ fn.pc = "return")
        => InClauseAsClaimed(fn.args.user_did_change, fn.args.member_types, fn.out)

\* Whether no member type of the call holds a brace.
BraceFree(m) ==
    \A i \in 1..Len(GivenTypes(m)) :
        \A k \in 1..Len(GivenTypes(m)[i]) : GivenTypes(m)[i][k] \notin {"{", "}"}

\* C1 restricted to member types without braces: there the claim holds.
C1_BraceFreeTypes ==
    (fn.name = "generate_soql" /\ fn.pc = "return" /\ BraceFree(fn.args.member_types))
        => InClauseAsClaimed(fn.args.user_did_change, fn.args.member_types, fn.out)

\* --------------------------------------- save_to_csv called on its own
\* The key orders of the records given to save_to_csv.
CsvShapes ==
    {<<"MemberType", "MemberName">>, <<"MemberName", "MemberType">>,
     <<"MemberType">>, <<"MemberType", "MemberName", "Id">>}

\* The values a key may hold.
CsvValues(key) ==
    IF key = "MemberType" THEN {JStr("A")}
    ELSE IF key = "MemberName" THEN {JStr("C"), JStr("B.C"), JNull}
    ELSE {JStr("1")}

CsvRecords ==
    UNION {{[i \in 1..Len(shape) |-> Field(shape[i], choice[i])] :
              choice \in {c \in [1..Len(shape) -> {JStr("A"), JStr("C"), JStr("B.C"), JNull, JStr("1")}] :
                            \A i \in 1..Len(shape) : c[i] \in CsvValues(shape[i])}} :
           shape \in CsvShapes}

\* A CSV file an earlier run left.
EarlierCsv == CsvFile(<<"MemberType", "MemberName">>, <<<<"A", "C">>>>)

InitCsv ==
    /\ session_member_types = Absent
    /\ last = NoAction
    /\ files \in {[p \in Paths |-> IF p = DefaultCsv THEN f ELSE NoFile] : f \in {NoFile, EarlierCsv}}
    /\ fn \in {[name |-> "save_to_csv", pc |-> "call",
                args |-> [results |-> Results(r), output_csv |-> p],
                out |-> <<>>] : r \in SeqsUpTo(CsvRecords, MaxRecords), p \in Paths}

Call_save_to_csv ==
    /\ fn.name = "save_to_csv"
    /\ fn.pc = "call"
    /\ LET o == save_to_csv(files, fn.args.results, fn.args.output_csv) IN
         /\ files' = o.fs
         /\ fn' = [fn EXCEPT !.pc = "return",
                             !.out = [msgs |-> o.msgs, result |-> o.result, before |-> files]]
    /\ UNCHANGED <<session_member_types, last>>

NextCsv == Call_save_to_csv

SpecCsv == InitCsv /\ [][NextCsv]_vars

\* ------------------------------------------------------------ claim C5
\* C5: given zero records, save_to_csv writes nothing: every file, the one at
\* the destination included, is as it was (absent stays absent, an earlier file
\* keeps its content), and it returns after a "No records found." warning
\* without raising.
C5_NoWriteOnEmpty ==
    (fn.name = "save_to_csv" /\ fn.pc = "return" /\ fn.args.results.records = <<>>)
        => /\ files = fn.out.before
           /\ fn.out.result.ok
           /\ fn.out.msgs = <<Message("warning", <<"No records found.">>)>>

\* A call with zero records has returned with an earlier file at the
\* destination.
C5_Witness ==
    /\ fn.name = "save_to_csv" /\ fn.pc = "return"
    /\ fn.args.results.records = <<>>
    /\ fn.out.before[fn.args.output_csv] = EarlierCsv

\* ------------------------------------------------------------ claim C9
\* The row C9 describes for a record: its values in the header's order, as
\* text, with an empty cell for a key it lacks.
ClaimedRow(header, record) ==
    [i \in 1..Len(header) |->
        IF \E j \in 1..Len(record) : record[j].k = header[i]
        THEN LET value == record[CHOOSE j \in 1..Len(record) : record[j].k = header[i]].v
             IN  IF value = JNull THEN "" ELSE value.s
        ELSE ""]

\* The file C9 describes: the first record's keys as the header, then one row
\* per record in record order, each in the header's order.
CsvAsClaimed(records) ==
    CsvFile([i \in 1..Len(records[1]) |-> records[1][i].k],
            [i \in 1..Len(records) |->
                ClaimedRow([j \in 1..Len(records[1]) |-> records[1][j].k], records[i])])

\* C9 as stated: for every non-empty sequence of records, whatever the field
\* sets of the later records, save_to_csv writes the header of the first
\* record and one row per record.
C9_OneRowPerRecord ==
    (fn.name = "save_to_csv" /\ fn.pc = "return" /\ fn.args.results.records # <<>>)
        => /\ fn.out.result.ok
           /\ files[fn.args.output_csv] = CsvAsClaimed(fn.args.results.records)

\* Whether every record's keys are among the first record's.
NoExtraKeys(records) ==
    \A i \in 1..Len(records) : Range(Keys(records[i])) \subseteq Range(Keys(records[1]))

\* The records before the first one holding a key the first record lacks.
RECURSIVE BeforeExtraKey(_, _)
BeforeExtraKey(first, records) ==
    IF records = <<>> \/ ~(Range(Keys(records[1])) \subseteq Range(Keys(first))) THEN <<>>
    ELSE <<records[1]>> \o BeforeExtraKey(first, Tail(records))

\* C9 amended: the claim holds when no record has a key the first record
\* lacks (a key a later record lacks is written as an empty cell, and nothing
\* else is touched); otherwise save_to_csv raises ValueError and the file
\* holds the header and the rows of the records before the offending one.
C9_Amended ==
    (fn.name = "save_to_csv" /\ fn.pc = "return" /\ fn.args.results.records # <<>>)
        => LET records == fn.args.results.records IN
           /\ \A p \in Paths \ {fn.args.output_csv} : files[p] = fn.out.before[p]
           /\ IF NoExtraKeys(records)
              THEN /\ fn.out.result.ok
                   /\ files[fn.args.output_csv] = CsvAsClaimed(records)
              ELSE /\ ~fn.out.result.ok
                   /\ fn.out.result.exc = "ValueError"
                   /\ files[fn.args.output_csv]
                        = CsvAsClaimed(BeforeExtraKey(records[1], records))

\* A call has written two rows, the second for a record that lacks a key of
\* the first and lists its keys in another order.
C9_Witness ==
    /\ fn.name = "save_to_csv" /\ fn.pc = "return"
    /\ Len(fn.args.results.records) >= 2
    /\ fn.out.result.ok
    /\ Keys(fn.args.results.records[2]) # Keys(fn.args.results.records[1])
    /\ Len(files[fn.args.output_csv].rows) = Len(fn.args.results.records)

\* ------------------------------ generate_package_xml called on its own
\* Rows of the CSV files given to generate_package_xml.
MaxRows == 3

\* The headers and the cells of those files.
PkgHeaders == {<<"MemberType", "MemberName">>, <<"MemberName", "MemberType">>, <<"MemberType">>}

PkgTypes == {"A", "A.B"}

PkgNames == {"C", "B.C", ""}

PkgCells(key) == IF key = "MemberType" THEN PkgTypes ELSE PkgNames

PkgCsvFiles ==
    UNION {{CsvFile(h, rows) :
              rows \in SeqsUpTo({r \in [1..Len(h) -> PkgTypes \cup PkgNames] :
                                   \A i \in 1..Len(h) : r[i] \in PkgCells(h[i])}, MaxRows)} :
           h \in PkgHeaders}

\* The API version of the tool (line 170).
DefaultApiVersion == "60.0"

InitPkg ==
    /\ session_member_types = Absent
    /\ last = NoAction
    /\ files \in {[p \in Paths |-> IF p = DefaultCsv THEN f ELSE NoFile] :
                    f \in {NoFile} \cup PkgCsvFiles}
    /\ fn = [name |-> "generate_package_xml", pc |-> "call",
             args |-> [output_csv |-> DefaultCsv, pkg_xml |-> DefaultPkgXml],
             out |-> <<>>]

Call_generate_package_xml ==
    /\ fn.name = "generate_package_xml"
    /\ fn.pc = "call"
    /\ \E o \in generate_package_xml(files, DefaultApiVersion,
                                     fn.args.output_csv, fn.args.pkg_xml) :
         /\ files' = o.fs
         /\ fn' = [fn EXCEPT !.pc = "return",
                             !.out = [msgs |-> o.msgs, result |-> o.result, before |-> files]]
    /\ UNCHANGED <<session_member_types, last>>

NextPkg == Call_generate_package_xml

SpecPkg == InitPkg /\ [][NextPkg]_vars

\* ------------------------------------------------------ claims C3 and C8
\* The column of a CSV file under one header name, top to bottom.
Column(file, key) ==
    [i \in 1..Len(file.rows) |->
        file.rows[i][CHOOSE c \in 1..Len(file.header) : file.header[c] = key]]

\* The MemberNames the file pairs with one MemberType, row by row.
NamesOfType(file, member_type) ==
    LET types == Column(file, "MemberType")
        names == Column(file, "MemberName")
        RECURSIVE From(_)
        From(i) == IF i > Len(types) THEN <<>>
                   ELSE (IF types[i] = member_type THEN <<names[i]>> ELSE <<>>) \o From(i + 1)
    IN  From(1)

\* A sequence without its repeated elements, each kept where it first occurs.
RECURSIVE FirstOccurrences(_)
FirstOccurrences(seq) ==
    IF seq = <<>> THEN <<>>
    ELSE LET front == FirstOccurrences(SubSeq(seq, 1, Len(seq) - 1)) IN
         IF seq[Len(seq)] \in Range(front) THEN front ELSE Append(front, seq[Len(seq)])

\* A call of generate_package_xml has returned having written the manifest.
PkgWritten ==
    /\ fn.name = "generate_package_xml" /\ fn.pc = "return"
    /\ fn.out.result.ok

\* C3: the manifest has exactly one <types> block per distinct MemberType of the
\* records, and the block of type T has exactly one <members> element per
\* distinct MemberName recorded with T, whose text is that MemberName alone.
C3_OneMemberPerName ==
    PkgWritten =>
        LET csv == fn.out.before[fn.args.output_csv]
            blocks == files[fn.args.pkg_xml].types
        IN  /\ Len(blocks) = Cardinality(Range(Column(csv, "MemberType")))
            /\ {blocks[i].name : i \in 1..Len(blocks)} = Range(Column(csv, "MemberType"))
            /\ \A i \in 1..Len(blocks) :
                 /\ Len(blocks[i].members)
                      = Cardinality(Range(NamesOfType(csv, blocks[i].name)))
                 /\ Range(blocks[i].members) = Range(NamesOfType(csv, blocks[i].name))

\* Whether no two rows of different types share the text MemberType.MemberName.
NoKeyCollision(file) ==
    \A i, j \in 1..Len(file.rows) :
        LET t == Column(file, "MemberType")
            n == Column(file, "MemberName")
        IN  (t[i] \o "." \o n[i] = t[j] \o "." \o n[j]) => t[i] = t[j]

\* C3 restricted to files without such a collision: there the claim holds.
C3_WithoutCollision ==
    (PkgWritten /\ NoKeyCollision(fn.out.before[fn.args.output_csv]))
        => C3_OneMemberPerName

\* C8: the <types> blocks are in the order in which each MemberType first
\* occurs, and the <members> elements of a block that holds exactly the names
\* of its type are in the order in which each name first occurs for the type.
C8_FirstOccurrenceOrder ==
    PkgWritten =>
        LET csv == fn.out.before[fn.args.output_csv]
            blocks == files[fn.args.pkg_xml].types
        IN  /\ [i \in 1..Len(blocks) |-> blocks[i].name]
                 = FirstOccurrences(Column(csv, "MemberType"))
            /\ \A i \in 1..Len(blocks) :
                 Range(blocks[i].members) = Range(NamesOfType(csv, blocks[i].name))
                    => blocks[i].members
                         = FirstOccurrences(NamesOfType(csv, blocks[i].name))

\* The part of C8 that holds: the order of the <types> blocks.
C8_TypesOrder ==
    PkgWritten =>
        [i \in 1..Len(files[fn.args.pkg_xml].types) |-> files[fn.args.pkg_xml].types[i].name]
            = FirstOccurrences(Column(fn.out.before[fn.args.output_csv], "MemberType"))

\* ------------------------------------------------------------ claim C2
\* C2 as stated: when the changed-by user is empty, building the query fails
\* with a ConfigurationError, and the action sends no request.
C2_BuildQueryFails ==
    (last.action # "none" /\ last.user_did_change = "")
        => /\ ~generate_soql(PyStr(Atoms(last.user_did_change)), PyNone).ok
           /\ generate_soql(PyStr(Atoms(last.user_did_change)), PyNone).exc
                = "ConfigurationError"
           /\ last.requests = 0

\* C2 amended: a button pressed with an empty changed-by user calls no method
\* of the tool (generate_soql included, so no query string is produced), sends
\* no request, shows "Tool is not initialized. Please check your inputs.", and
\* leaves both files and the stored member types as they were.  (The check is
\* main's; generate_soql itself returns a query for an empty or missing user.)
C2_Amended ==
    [][(last'.action # "none" /\ last'.user_did_change = "")
          => /\ last'.steps = <<>>
             /\ last'.requests = 0
             /\ last'.messages = <<NotInitialised>>
             /\ files' = files
             /\ session_member_types' = session_member_types]_vars

\* The final query was pressed with an empty changed-by user while both files
\* of an earlier run exist.
C2_Witness ==
    /\ last.action = "final"
    /\ last.user_did_change = ""
    /\ files[DefaultCsv].kind = "csv"
    /\ files[DefaultPkgXml].kind = "xml"

\* ------------------------------------------------------------ claim C6
\* The last press was the final query and its response held zero records.
FinalWithNoRecords ==
    /\ last.action = "final"
    /\ last.requests = 1
    /\ last.response.status_code = 200
    /\ last.response.records = <<>>

\* C6: when the final query returns zero records, the action stops after the
\* warning: generate_package_xml is not run and no manifest is written.
C6_HaltsOnNoRecords ==
    FinalWithNoRecords
        => /\ "generate_package_xml" \notin Range(last.steps)
           /\ \A m \in Range(last.messages) : m.kind # "success"

\* What the code does instead: the manifest is written again, from the CSV an
\* earlier run left.
C6_ManifestFromEarlierCsv ==
    /\ FinalWithNoRecords
    /\ last.messages = <<Message("warning", <<"No records found.">>),
                        Message("success", <<"package.xml saved to ", DefaultPkgXml>>)>>

\* ------------------------------------------------------------ claim C7
\* C7: a response that is no 200 makes run_tooling_query raise an error whose
\* text holds the status code and the body; exactly one request was sent; the
\* action stops there, showing that error, and writes neither file.
C7_Non200Aborts ==
    [][(last'.requests >= 1 /\ last'.response.status_code # 200)
          => /\ last'.requests = 1
             /\ last'.steps = <<"generate_soql", "run_tooling_query">>
             /\ last'.messages
                  = <<Message("error",
                              <<"An error occurred: ", "Failed to run query: ",
                                ToString(last'.response.status_code), " ",
                                last'.response.text>>)>>
             /\ files' = files]_vars

\* The final query got a 401 while both files of an earlier run exist.
C7_Witness ==
    /\ last.action = "final"
    /\ last.requests = 1
    /\ last.response.status_code = 401
    /\ last.response.text = "invalid session"
    /\ files[DefaultCsv].kind = "csv"
    /\ files[DefaultPkgXml].kind = "xml"

\* ----------------------------------------------------------- claim C10
\* Python's order of two strs of the model.
StrBefore(a, b) ==
    \E i, j \in 1..Len(CodePointOrder) :
        i < j /\ CodePointOrder[i] = a /\ CodePointOrder[j] = b

\* Whether a press was a fetch that succeeded: a tool, a 200, and a MemberType
\* in every record.
FetchSucceeded(pressed) ==
    /\ pressed.action = "fetch"
    /\ pressed.requests = 1
    /\ pressed.response.status_code = 200
    /\ \A i \in 1..Len(pressed.response.records) :
         \E f \in 1..Len(pressed.response.records[i]) :
            pressed.response.records[i][f].k = "MemberType"

\* The MemberType values of the records of a response.
TypesOfResponse(response) ==
    UNION {{response.records[i][f].v.s :
              f \in {g \in 1..Len(response.records[i]) :
                       response.records[i][g].k = "MemberType"}} :
           i \in 1..Len(response.records)}

\* C10: the stored member types change only in a fetch that succeeds, and are
\* then the MemberType values of its response, sorted and without duplicates;
\* a fetch that fails and every final query leave them as they were; and the
\* final query runs only once they are stored.
C10_StoredMemberTypes ==
    [][/\ session_member_types' # session_member_types => FetchSucceeded(last')
       /\ FetchSucceeded(last')
            => /\ session_member_types'.t = "list"
               /\ Range(session_member_types'.v) = TypesOfResponse(last'.response)
               /\ \A i, j \in 1..Len(session_member_types'.v) :
                    i < j => StrBefore(session_member_types'.v[i], session_member_types'.v[j])
       /\ (last'.action = "fetch" /\ ~FetchSucceeded(last'))
            => session_member_types' = session_member_types
       /\ last'.action = "final"
            => /\ session_member_types' = session_member_types
               /\ session_member_types # Absent]_vars

\* A fetch stored two types that its response listed in the other order, the
\* second of them twice.
C10_Witness ==
    /\ last.action = "fetch"
    /\ Len(last.response.records) = 2
    /\ last.response.records[1] = MainRecord("A.B", "C")
    /\ last.response.records[2] = MainRecord("A", "B.C")
    /\ session_member_types = Stored(<<"A", "A.B">>)

\* ------------------------------------------------------------ claim C4
\* The last press was a final query that wrote the manifest.
ManifestWritten ==
    /\ last.action = "final"
    /\ Message("success", <<"package.xml saved to ", DefaultPkgXml>>) \in Range(last.messages)

\* C4: whenever a final query has written the manifest, the block of type T
\* holds a <members> element for name M exactly when the CSV file pairs T
\* with M in some row.
C4_ManifestMatchesCsv ==
    ManifestWritten =>
        LET csv == files[DefaultCsv]
            blocks == files[DefaultPkgXml].types
        IN  \A T \in Range(Column(csv, "MemberType"))
                       \cup {blocks[i].name : i \in 1..Len(blocks)} :
              \A M \in Range(Column(csv, "MemberName"))
                         \cup UNION {Range(blocks[i].members) : i \in 1..Len(blocks)} :
                (\E i \in 1..Len(blocks) : blocks[i].name = T /\ M \in Range(blocks[i].members))
                  <=> (\E r \in 1..Len(csv.rows) :
                          /\ Column(csv, "MemberType")[r] = T
                          /\ Column(csv, "MemberName")[r] = M)

\* C4 restricted to CSV files in which no two rows of different types share
\* the text MemberType.MemberName: there the claim holds.
C4_WithoutCollision ==
    (ManifestWritten /\ NoKeyCollision(files[DefaultCsv])) => C4_ManifestMatchesCsv

====
